---- MODULE Spec2Model ----
(***************************************************************************)
(* Model of the kfree_skb tracepoint probe of src/bpf/monitor.c            *)
(* (trace_tcp_drop), of the BPF ring buffer map `events` it writes to, and *)
(* of the userspace Collector / Sink / Event Codec that spec.md describes  *)
(* around it.                                                              *)
(*                                                                         *)
(* Numbers: TLC's integers are 32-bit signed, so an unsigned 32-bit value  *)
(* is kept as two 16-bit limbs [hi, lo] (value = hi * 65536 + lo) and an   *)
(* unsigned 64-bit value as two u32 halves [hi, lo].  No width is lost.    *)
(***************************************************************************)
EXTENDS Integers, Sequences, FiniteSets, TLC

(***************************************************************************)
(* Bounds of the model.                                                    *)
(***************************************************************************)
\* Number of CPUs on which the probe can run at the same time.
NumCpus == 2
\* Total number of probe invocations in a behaviour of Spec.
MaxInvocations == 2
\* Total number of probe invocations in a behaviour of SpecSingle.
MaxInvocationsSingle == 5
\* Total number of probe invocations in a behaviour of SpecProducers.
MaxInvocationsProducers == 4
\* Raw records the foreign producer places, and probe invocations, in a
\* behaviour of SpecRaw.
MaxRaw == 3
MaxInvocationsRaw == 1
\* The timeout run gives to poll, in ticks of the clock, and the probe
\* invocations in a behaviour of SpecCancel.
PollTimeout == 2
MaxInvocationsCancel == 2
\* Total number of probe invocations in a behaviour of SpecLive.
MaxInvocationsLive == 2
\* log2 of the ring's size in bytes.  The program sets 16 (1 << 16, 4095
\* records of 16 bytes); the model keeps the arithmetic and scales the
\* exponent down, so that the ring holds 3 records and really fills up.
RingOrder == 6

CPUS == 1 .. NumCpus

(***************************************************************************)
(* Unsigned integers.                                                      *)
(***************************************************************************)
U32(hi, lo) == [hi |-> hi, lo |-> lo]
U64(hi, lo) == [hi |-> hi, lo |-> lo]

Zero32 == U32(0, 0)

\* x <= 1 for an unsigned 32-bit x (the comparison of line 24).
U32LeqOne(x) == x.hi = 0 /\ x.lo <= 1

\* x >> 32 for an unsigned 64-bit x: still 64 bits wide.
Shr32(x) == U64(Zero32, x.hi)

\* The implicit conversion of a u64 to a u32 on assignment: the low 32 bits.
TruncU32(x) == x.lo

\* The four bytes of a u32 in native (little-endian) byte order.
BytesOfU32(x) == << x.lo % 256, x.lo \div 256, x.hi % 256, x.hi \div 256 >>

\* The u32 read from four bytes in native (little-endian) byte order.
U32OfBytes(b) == U32(b[3] + 256 * b[4], b[1] + 256 * b[2])

(***************************************************************************)
(* struct event (lines 10-13): two u32 fields, no padding.                 *)
(***************************************************************************)
offsetof_pid == 0
offsetof_reason == 4
sizeof_event == 8

\* A store of the u32 v at byte offset off of the buffer buf.
Store32(buf, off, v) ==
    [i \in 1 .. Len(buf) |->
        IF i > off /\ i <= off + 4 THEN BytesOfU32(v)[i - off] ELSE buf[i]]

\* A load of the u32 at byte offset off of the buffer buf.
Load32(buf, off) == U32OfBytes(SubSeq(buf, off + 1, off + 4))

ZeroBytes(n) == [i \in 1 .. n |-> 0]

(***************************************************************************)
(* The ring buffer map `events` (lines 15-18) and the two kernel helpers   *)
(* the probe calls on it.  A record is an 8-byte header (length, BUSY bit) *)
(* followed by the payload, rounded up to 8 bytes.  producer_pos and       *)
(* consumer_pos are byte counters that only grow; the record at position p *)
(* lives at offset p & mask of the data area.                              *)
(***************************************************************************)
max_entries == 2 ^ RingOrder
ring_mask == max_entries - 1

BPF_RINGBUF_HDR_SZ == 8

RoundUp8(n) == ((n + 7) \div 8) * 8

\* Bytes a record with a payload of `size` bytes takes in the ring.
RecordLen(size) == RoundUp8(size + BPF_RINGBUF_HDR_SZ)

\* Mutation of MaskPos: the mask taken from the size of a record, not of the
\* ring, so that every record starts at offset 0.
MaskPosOfRecord(p) == p % RecordLen(sizeof_event)

\* p & ring_mask, ring_mask being 2^k - 1.
MaskPos(p) == p % max_entries

\* The offsets of the data area at which a record of this probe can start.
SlotOffsets == {o \in 0 .. max_entries - 1 : o % RecordLen(sizeof_event) = 0}

\* Most records of this probe that fit the ring at the same time.
MaxRecords == ring_mask \div RecordLen(sizeof_event)

NULL == << >>

\* Mutation of bpf_ringbuf_reserve: no test for space.
bpf_ringbuf_reserve_unchecked(prod, cons, size) ==
    [ptr |-> << MaskPos(prod) >>, new_prod |-> prod + RecordLen(size)]

\* Mutation of bpf_ringbuf_reserve: the producer position is not advanced.
bpf_ringbuf_reserve_no_advance(prod, cons, size) ==
    IF prod + RecordLen(size) - cons > ring_mask
    THEN [ptr |-> NULL, new_prod |-> prod]
    ELSE [ptr |-> << MaskPos(prod) >>, new_prod |-> prod]

\* Mutation of bpf_ringbuf_reserve: the space left is counted from the start
\* of the data area, whatever the consumer has freed.
bpf_ringbuf_reserve_no_reuse(prod, cons, size) ==
    IF prod + RecordLen(size) > ring_mask
    THEN [ptr |-> NULL, new_prod |-> prod]
    ELSE [ptr |-> << MaskPos(prod) >>, new_prod |-> prod + RecordLen(size)]

\* bpf_ringbuf_reserve(&events, size, 0): under the ring's spinlock, fail
\* when the producer would get more than ring_mask bytes ahead of the
\* consumer, else hand out the record at producer_pos and advance it.
bpf_ringbuf_reserve(prod, cons, size) ==
    LET new_prod == prod + RecordLen(size)
    IN  IF new_prod - cons > ring_mask
        THEN [ptr |-> NULL, new_prod |-> prod]
        ELSE [ptr |-> << MaskPos(prod) >>, new_prod |-> new_prod]

\* Mutation of ReservedHdr: the length is counted in 32-bit words.
ReservedHdrInWords(rec, size) == [rec EXCEPT !.len = size \div 4, !.busy = TRUE]

\* The header bpf_ringbuf_reserve writes: the length with the BUSY bit set.
ReservedHdr(rec, size) == [rec EXCEPT !.len = size, !.busy = TRUE]

\* Mutation of bpf_ringbuf_submit: the BUSY bit stays set.
bpf_ringbuf_submit_keeps_busy(rec) == rec

\* bpf_ringbuf_submit(e, 0): clear the BUSY bit of the record's header.
bpf_ringbuf_submit(rec) == [rec EXCEPT !.busy = FALSE]

\* Mutation of PidOf: the shift is missing, the low half is stored.
PidOfLowHalf(pid_tgid) == TruncU32(pid_tgid)

\* bpf_get_current_pid_tgid() >> 32, assigned to the u32 field pid.
PidOf(pid_tgid) == TruncU32(Shr32(pid_tgid))

(***************************************************************************)
(* Inputs.                                                                 *)
(***************************************************************************)
\* What an invocation reads: ctx->reason (0 and 1 are "not a drop") and
\* bpf_get_current_pid_tgid() (tgid in the high half, pid in the low half).
Input(reason, pid_tgid) == [reason |-> reason, pid_tgid |-> pid_tgid]

TaskA == U64(U32(0, 7), U32(0, 9))
TaskB == U64(U32(65535, 65535), U32(0, 3))

Inputs ==
    {Input(U32(0, 0), TaskB), Input(U32(0, 1), TaskA), Input(U32(0, 2), TaskA),
     Input(U32(1, 0), TaskB)}

\* The single producer's n-th invocation reads either the n-th reason of
\* spec.md's end-to-end example (0, 2, 5, 1, 9, then over again) or reason 3.
ExampleReasons == << U32(0, 0), U32(0, 2), U32(0, 5), U32(0, 1), U32(0, 9) >>

InputsSingle(n) ==
    {Input(ExampleReasons[((n - 1) % Len(ExampleReasons)) + 1], TaskA),
     Input(U32(0, 3), TaskB)}

\* What an invocation reads when the Collector never runs: a drop, so that
\* every invocation asks for a slot.
InputsProducers == {Input(U32(0, 2), TaskB)}

VARIABLES
    pc,            \* pc[c]: where CPU c's invocation of trace_tcp_drop stands
    ctx,           \* ctx[c].reason: the tracepoint context of that invocation
    task,          \* task[c]: pid_tgid of the task current on CPU c
    e,             \* e[c]: the local pointer e, NULL or << offset >>
    producer_pos,  \* the ring's producer position
    consumer_pos,  \* the ring's consumer position
    data,          \* data[o]: header and payload of the record at offset o
    sink,          \* the Events the Collector emitted to the Sink, in order
    malformed,     \* number of records the Collector skipped as malformed
    nInv,          \* history: number of invocations so far
    cur,           \* history: cur[c], the number of CPU c's invocation
    inv,           \* history: what each invocation read and did
    owner,         \* history: owner[o], the invocation that last reserved o
    reserved,      \* history: invocations in the order of their reservations
    submitted,     \* history: invocations in the order of their submits
    deliveredIds,  \* history: the invocation behind each element of sink
    cphase,        \* codec: "in", "encoded" or "decoded"
    cin,           \* codec: the Event given to encode
    cbytes,        \* codec: the bytes encode produced
    cout,          \* codec: what decode made of them
    raw,           \* history: the raw records a foreign producer placed
    cancel_token,  \* run loop: the cancellation token is signaled
    run_state,     \* run loop: "check", "poll" or "returned"
    poll_elapsed,  \* run loop: time the current poll has been blocked
    since_cancel   \* run loop: time from the cancellation to run's return

probeVars == << pc, ctx, task, e >>
ringVars == << producer_pos, consumer_pos, data >>
collectorVars == << sink, malformed >>
historyVars == << nInv, cur, inv, owner, reserved, submitted, deliveredIds >>
codecVars == << cphase, cin, cbytes, cout >>
runVars == << cancel_token, run_state, poll_elapsed, since_cancel >>
harnessVars == << raw, runVars >>
vars == << probeVars, ringVars, collectorVars, historyVars, codecVars,
          harnessVars >>

(***************************************************************************)
(* Event Codec (spec.md 4.3).  encode is the layout of struct event;       *)
(* decode is the Collector's reading of a raw record.                      *)
(***************************************************************************)
Event(pid, reason) == [pid |-> pid, reason |-> reason]

\* Mutation of encode: the two fields of struct event in the other order.
encode_reason_first(ev) ==
    Store32(Store32(ZeroBytes(sizeof_event), offsetof_pid, ev.reason),
            offsetof_reason, ev.pid)

encode(ev) ==
    Store32(Store32(ZeroBytes(sizeof_event), offsetof_pid, ev.pid),
            offsetof_reason, ev.reason)

\* Mutation of decode: a record longer than an Event is read as the Event of
\* its first bytes.
decode_at_least(bytes) ==
    IF Len(bytes) < sizeof_event
    THEN [ok |-> FALSE, error |-> "MalformedRecord", event |-> Event(Zero32, Zero32)]
    ELSE [ok |-> TRUE, error |-> "",
          event |-> Event(Load32(bytes, offsetof_pid), Load32(bytes, offsetof_reason))]

decode(bytes) ==
    IF Len(bytes) # sizeof_event
    THEN [ok |-> FALSE, error |-> "MalformedRecord", event |-> Event(Zero32, Zero32)]
    ELSE [ok |-> TRUE, error |-> "",
          event |-> Event(Load32(bytes, offsetof_pid), Load32(bytes, offsetof_reason))]

(***************************************************************************)
(* Initial state: the map is allocated and zeroed, the probe is attached   *)
(* and runs nowhere, the Collector has received nothing.                   *)
(***************************************************************************)
EmptyRecord == [len |-> 0, busy |-> FALSE, payload |-> ZeroBytes(sizeof_event)]

InitSystem ==
    /\ pc = [c \in CPUS |-> "idle"]
    /\ ctx = [c \in CPUS |-> [reason |-> Zero32]]
    /\ task = [c \in CPUS |-> U64(Zero32, Zero32)]
    /\ e = [c \in CPUS |-> NULL]
    /\ producer_pos = 0
    /\ consumer_pos = 0
    /\ data = [o \in SlotOffsets |-> EmptyRecord]
    /\ sink = << >>
    /\ malformed = 0
    /\ nInv = 0
    /\ cur = [c \in CPUS |-> 0]
    /\ inv = << >>
    /\ owner = [o \in SlotOffsets |-> 0]
    /\ reserved = << >>
    /\ submitted = << >>
    /\ deliveredIds = << >>
    /\ raw = << >>
    /\ cancel_token = FALSE
    /\ run_state = "check"
    /\ poll_elapsed = 0
    /\ since_cancel = 0

Init ==
    /\ InitSystem
    /\ cphase = "off"
    /\ cin = Event(Zero32, Zero32)
    /\ cbytes = << >>
    /\ cout = decode(<< >>)

(***************************************************************************)
(* trace_tcp_drop (lines 23-31), one action per statement.                 *)
(***************************************************************************)
\* Mutation of body: the record is submitted before it is written.
body_submit_first == << "submit", "write_pid", "write_reason" >>

\* Mutation of body: the record is written and never submitted.
body_no_submit == << "write_pid", "write_reason" >>

\* The statements that follow a successful reservation, in program order
\* (lines 27, 28, 29).
body == << "write_pid", "write_reason", "submit" >>

IndexOf(s) == CHOOSE i \in 1 .. Len(body) : body[i] = s

\* Where control goes after statement s of the body; line 30 after the last.
After(s) == IF IndexOf(s) = Len(body) THEN "l30" ELSE body[IndexOf(s) + 1]

\* Mutation of Filtered: the test of the reason is missing.
FilteredNone(reason) == FALSE

\* Mutations of Filtered: reason < 1, and reason <= 2.
FilteredBelowOne(reason) == reason.hi = 0 /\ reason.lo < 1
FilteredUpToTwo(reason) == reason.hi = 0 /\ reason.lo <= 2

\* Line 24: the reasons for which the probe returns at once.
Filtered(reason) == U32LeqOne(reason)

\* Mutation of OnReserveFail: the probe tries again until it gets a slot.
OnReserveFailRetry == "retry"

\* Line 26: what the probe does when the reservation returned NULL.
OnReserveFail == "return"

\* Mutation of RetNoSpace: the failure is returned (-ENOSPC).
RetNoSpaceError == 0 - 28

\* The values the three return statements return (lines 24, 26, 30).
RetFiltered == 0
RetNoSpace == 0
RetSubmitted == 0

\* Number of records reserved and not yet consumed.
Outstanding == (producer_pos - consumer_pos) \div RecordLen(sizeof_event)

\* The invocation on CPU c is over: its context, its local e and the
\* bookkeeping of the CPU are gone.
Leave(c) ==
    /\ pc' = [pc EXCEPT ![c] = "idle"]
    /\ ctx' = [ctx EXCEPT ![c] = [reason |-> Zero32]]
    /\ task' = [task EXCEPT ![c] = U64(Zero32, Zero32)]
    /\ e' = [e EXCEPT ![c] = NULL]
    /\ cur' = [cur EXCEPT ![c] = 0]

\* The log entry of a new invocation.
LogEntry(i, path, ret) ==
    [reason |-> i.reason, pid_tgid |-> i.pid_tgid, path |-> path, ret |-> ret,
     attempts |-> 0, occ |-> 0]

\* Lines 23-24: the kernel fires the tracepoint on CPU c, reason and current
\* task being the invocation's inputs, and the probe tests the reason:
\*     if (ctx->reason <= 1) return 0;
\* The test reads the invocation's own context only, so it is taken in the
\* same step as the entry.
Invoke(c, I, max) ==
    /\ pc[c] = "idle"
    /\ nInv < max
    /\ nInv' = nInv + 1
    /\ \E i \in I :
        IF Filtered(i.reason)
        THEN /\ inv' = Append(inv, LogEntry(i, "filtered", << RetFiltered >>))
             /\ UNCHANGED << pc, ctx, task, e, cur >>
        ELSE /\ inv' = Append(inv, LogEntry(i, "running", << >>))
             /\ pc' = [pc EXCEPT ![c] = "l25"]
             /\ ctx' = [ctx EXCEPT ![c] = [reason |-> i.reason]]
             /\ task' = [task EXCEPT ![c] = i.pid_tgid]
             /\ cur' = [cur EXCEPT ![c] = nInv + 1]
             /\ e' = e
    /\ UNCHANGED << ringVars, collectorVars, owner, reserved, submitted,
                    deliveredIds, codecVars, harnessVars >>

\* Lines 25-26:
\*     struct event *e = bpf_ringbuf_reserve(&events, sizeof(*e), 0);
\*     if (!e) return 0;
\* The test reads the local e only, so it is taken in the same step as the
\* reservation.
Reserve(c) ==
    /\ pc[c] = "l25"
    /\ LET r == bpf_ringbuf_reserve(producer_pos, consumer_pos, sizeof_event)
           log == [inv EXCEPT ![cur[c]].attempts = @ + 1,
                              ![cur[c]].occ = Outstanding]
       IN  /\ producer_pos' = r.new_prod
           /\ IF r.ptr = NULL
              THEN /\ IF OnReserveFail = "return"
                      THEN /\ Leave(c)
                           /\ inv' = [log EXCEPT ![cur[c]].path = "nospace",
                                                 ![cur[c]].ret = << RetNoSpace >>]
                      ELSE /\ inv' = log
                           /\ UNCHANGED << pc, ctx, task, e, cur >>
                   /\ UNCHANGED << data, owner, reserved >>
              ELSE /\ pc' = [pc EXCEPT ![c] = body[1]]
                   /\ e' = [e EXCEPT ![c] = r.ptr]
                   /\ inv' = log
                   /\ data' = [data EXCEPT ![r.ptr[1]] = ReservedHdr(@, sizeof_event)]
                   /\ owner' = [owner EXCEPT ![r.ptr[1]] = cur[c]]
                   /\ reserved' = Append(reserved, cur[c])
                   /\ UNCHANGED << ctx, task, cur >>
    /\ UNCHANGED << consumer_pos, collectorVars, nInv, submitted, deliveredIds,
                    codecVars, harnessVars >>

\* Line 27: e->pid = bpf_get_current_pid_tgid() >> 32;
WritePid(c) ==
    /\ pc[c] = "write_pid"
    /\ data' = [data EXCEPT ![e[c][1]].payload =
                    Store32(@, offsetof_pid, PidOf(task[c]))]
    /\ pc' = [pc EXCEPT ![c] = After("write_pid")]
    /\ UNCHANGED << ctx, task, e, producer_pos, consumer_pos, collectorVars,
                    historyVars, codecVars, harnessVars >>

\* Line 28: e->reason = ctx->reason;
WriteReason(c) ==
    /\ pc[c] = "write_reason"
    /\ data' = [data EXCEPT ![e[c][1]].payload =
                    Store32(@, offsetof_reason, ctx[c].reason)]
    /\ pc' = [pc EXCEPT ![c] = After("write_reason")]
    /\ UNCHANGED << ctx, task, e, producer_pos, consumer_pos, collectorVars,
                    historyVars, codecVars, harnessVars >>

\* Line 29: bpf_ringbuf_submit(e, 0);
Submit(c) ==
    /\ pc[c] = "submit"
    /\ data' = [data EXCEPT ![e[c][1]] = bpf_ringbuf_submit(@)]
    /\ submitted' = Append(submitted, cur[c])
    /\ pc' = [pc EXCEPT ![c] = After("submit")]
    /\ UNCHANGED << ctx, task, e, producer_pos, consumer_pos, collectorVars,
                    nInv, cur, inv, owner, reserved, deliveredIds, codecVars, harnessVars >>

\* Line 30: return 0;
ReturnSubmitted(c) ==
    /\ pc[c] = "l30"
    /\ Leave(c)
    /\ inv' = [inv EXCEPT ![cur[c]].path = "submitted",
                          ![cur[c]].ret = << RetSubmitted >>]
    /\ UNCHANGED << ringVars, collectorVars, nInv, owner, reserved, submitted,
                    deliveredIds, codecVars, harnessVars >>

\* A step of the invocation running on CPU c.
trace_tcp_drop(c) ==
    \/ Reserve(c)
    \/ WritePid(c)
    \/ WriteReason(c)
    \/ Submit(c)
    \/ ReturnSubmitted(c)

(***************************************************************************)
(* Collector (spec.md 4.2): the single consumer.  A step of its run loop   *)
(* dequeues the record at consumer_pos once its BUSY bit is clear, decodes *)
(* it, emits the Event to the Sink (or skips a malformed record) and       *)
(* advances consumer_pos.  It stops at a record that is still BUSY.        *)
(***************************************************************************)
\* Mutation of Consumed: the Collector wipes the record it has read.
ConsumedWiped(rec) == EmptyRecord

\* What the Collector leaves of a record it has read: the record as it was,
\* its mapping of the data area being for reading only (spec.md 3).
Consumed(rec) == rec

\* The dequeue of one record: what a poll that found a record does with it.
Dequeue ==
    /\ consumer_pos < producer_pos
    /\ LET o == MaskPos(consumer_pos)
           rec == data[o]
           d == decode(SubSeq(rec.payload, 1, rec.len))
       IN  /\ ~rec.busy
           /\ consumer_pos' = consumer_pos + RecordLen(rec.len)
           /\ IF d.ok
              THEN /\ sink' = Append(sink, d.event)
                   /\ deliveredIds' = Append(deliveredIds, owner[o])
                   /\ malformed' = malformed
              ELSE /\ malformed' = malformed + 1
                   /\ UNCHANGED << sink, deliveredIds >>
           /\ data' = [data EXCEPT ![o] = Consumed(@)]
    /\ UNCHANGED << probeVars, producer_pos, nInv, cur, inv, owner,
                    reserved, submitted, codecVars, raw >>

\* A step of the run loop where nobody cancels and time plays no part.
CollectorStep == Dequeue /\ UNCHANGED runVars

(***************************************************************************)
(* Specifications.                                                         *)
(***************************************************************************)
\* The probe on every CPU, concurrently with the Collector.
Next ==
    \/ \E c \in CPUS : Invoke(c, Inputs, MaxInvocations)
    \/ \E c \in CPUS : trace_tcp_drop(c)
    \/ CollectorStep

Spec == Init /\ [][Next]_vars

\* A single producer: the probe on CPU 1 alone, with the Collector.
NextSingle ==
    \/ Invoke(1, InputsSingle(nInv + 1), MaxInvocationsSingle)
    \/ trace_tcp_drop(1)
    \/ CollectorStep

SpecSingle == Init /\ [][NextSingle]_vars

\* The probe on every CPU while the Collector never runs: what is reserved
\* stays in the ring, which fills up and stays full.
NextProducers ==
    \/ \E c \in CPUS : Invoke(c, InputsProducers, MaxInvocationsProducers)
    \/ \E c \in CPUS : trace_tcp_drop(c)

SpecProducers == Init /\ [][NextProducers]_vars

\* The probe on every CPU with the Collector, where the run loop is fairly
\* scheduled and every invocation that has started runs to its return (the
\* kernel does not abandon a running probe).  Nothing obliges the kernel to
\* fire the tracepoint.
NextLive ==
    \/ \E c \in CPUS : Invoke(c, InputsProducers, MaxInvocationsLive)
    \/ \E c \in CPUS : trace_tcp_drop(c)
    \/ CollectorStep

SpecLive ==
    /\ Init
    /\ [][NextLive]_vars
    /\ WF_vars(CollectorStep)
    /\ \A c \in CPUS : WF_vars(trace_tcp_drop(c))

(***************************************************************************)
(* Raw records.  The Collector reads whatever the channel holds; this      *)
(* probe only ever places records of sizeof(struct event) bytes, so the    *)
(* records of another size come from a foreign producer of the same map,   *)
(* which reserves, fills and submits a raw record at once.                 *)
(***************************************************************************)
\* One record shorter than an Event, one longer whose first bytes are those
\* of an Event, one of the size of an Event.
RawSamples ==
    << [len |-> 7, payload |-> << 9, 0, 0, 0, 2, 0, 0 >>],
       [len |-> 20, payload |-> encode(Event(U32(0, 9), U32(0, 4))) \o ZeroBytes(12)],
       [len |-> 8, payload |-> encode(Event(U32(0, 9), U32(0, 2)))] >>

\* The foreign producer's k-th record is either the k-th of RawSamples (and
\* over again) or the one of the size of an Event.
RawInputs(k) == {RawSamples[((k - 1) % Len(RawSamples)) + 1], RawSamples[3]}

\* The memory buf after the bytes were written at its start.
Overlay(buf, bytes) ==
    [i \in 1 .. (IF Len(bytes) > Len(buf) THEN Len(bytes) ELSE Len(buf)) |->
        IF i <= Len(bytes) THEN bytes[i] ELSE buf[i]]

\* The k-th raw record is known to the history by the id -k.
RawId(k) == 0 - k

InjectRaw(r) ==
    /\ Len(raw) < MaxRaw
    /\ LET res == bpf_ringbuf_reserve(producer_pos, consumer_pos, r.len)
           id == RawId(Len(raw) + 1)
       IN  /\ res.ptr # NULL
           /\ producer_pos' = res.new_prod
           /\ data' = [data EXCEPT ![res.ptr[1]] =
                           bpf_ringbuf_submit(
                               [ReservedHdr(@, r.len) EXCEPT
                                   !.payload = Overlay(@, r.payload)])]
           /\ owner' = [owner EXCEPT ![res.ptr[1]] = id]
           /\ reserved' = Append(reserved, id)
           /\ submitted' = Append(submitted, id)
           /\ raw' = Append(raw, r)
    /\ UNCHANGED << probeVars, consumer_pos, collectorVars, nInv, cur, inv,
                    deliveredIds, codecVars, runVars >>

\* The foreign producer and the probe on CPU 1, with the Collector.
NextRaw ==
    \/ \E r \in RawInputs(Len(raw) + 1) : InjectRaw(r)
    \/ Invoke(1, InputsProducers, MaxInvocationsRaw)
    \/ trace_tcp_drop(1)
    \/ CollectorStep

SpecRaw == Init /\ [][NextRaw]_vars

(***************************************************************************)
(* The Collector's run loop with its cancellation token (spec.md 4.2, 5):  *)
(*     while the token is not signaled: poll(timeout), emit each Event     *)
(* poll blocks until a record is available, the timeout has elapsed or     *)
(* cancellation is requested.  Time passes only while poll blocks: the     *)
(* test of the token, decode and sink.emit take no time of the clock.      *)
(***************************************************************************)
\* Mutation of PollWaitLimit: poll blocks for up to twice its timeout.
PollWaitLimitDouble == 2 * PollTimeout

\* The longest a call of poll(timeout) blocks.
PollWaitLimit == PollTimeout

\* A submitted record stands at the read cursor.
Available == consumer_pos < producer_pos /\ ~data[MaskPos(consumer_pos)].busy

\* The cancellation token is signaled, at any moment of the run.
Cancel ==
    /\ ~cancel_token
    /\ cancel_token' = TRUE
    /\ UNCHANGED << probeVars, ringVars, collectorVars, historyVars, codecVars,
                    raw, run_state, poll_elapsed, since_cancel >>

\* One tick of the clock while poll blocks.
Tick ==
    /\ run_state = "poll"
    /\ poll_elapsed < PollWaitLimit
    /\ poll_elapsed' = poll_elapsed + 1
    /\ since_cancel' = IF cancel_token THEN since_cancel + 1 ELSE since_cancel
    /\ UNCHANGED << probeVars, ringVars, collectorVars, historyVars, codecVars,
                    raw, cancel_token, run_state >>

\* The loop tests the token: run returns, or calls poll.
RunCheck ==
    /\ run_state = "check"
    /\ IF cancel_token
       THEN run_state' = "returned" /\ poll_elapsed' = poll_elapsed
       ELSE run_state' = "poll" /\ poll_elapsed' = 0
    /\ UNCHANGED << probeVars, ringVars, collectorVars, historyVars, codecVars,
                    raw, cancel_token, since_cancel >>

\* poll returns a record, which the loop decodes and emits.
RunPollDeliver ==
    /\ run_state = "poll"
    /\ Dequeue
    /\ run_state' = "check"
    /\ UNCHANGED << cancel_token, poll_elapsed, since_cancel >>

\* poll returns nothing: its timeout has elapsed or cancellation is requested.
RunPollEmpty ==
    /\ run_state = "poll"
    /\ poll_elapsed = PollWaitLimit \/ cancel_token
    /\ run_state' = "check"
    /\ UNCHANGED << probeVars, ringVars, collectorVars, historyVars, codecVars,
                    raw, cancel_token, poll_elapsed, since_cancel >>

run == RunCheck \/ RunPollDeliver \/ RunPollEmpty

\* The probe on CPU 1 and the run loop, which may be cancelled.
NextCancel ==
    \/ Invoke(1, InputsProducers, MaxInvocationsCancel)
    \/ trace_tcp_drop(1)
    \/ Cancel
    \/ Tick
    \/ RunCheck
    \/ RunPollDeliver
    \/ RunPollEmpty

SpecCancel == Init /\ [][NextCancel]_vars

(***************************************************************************)
(* The codec on its own: encode an Event, then decode the bytes.           *)
(***************************************************************************)
U32Samples ==
    {U32(0, 0), U32(0, 1), U32(0, 255), U32(0, 256), U32(0, 65535), U32(1, 0),
     U32(258, 772), U32(65535, 65535)}

InitCodec ==
    /\ InitSystem
    /\ cphase = "in"
    /\ cin \in {Event(p, r) : p \in U32Samples, r \in U32Samples}
    /\ cbytes = << >>
    /\ cout = decode(<< >>)

CodecEncode ==
    /\ cphase = "in"
    /\ cbytes' = encode(cin)
    /\ cphase' = "encoded"
    /\ UNCHANGED << probeVars, ringVars, collectorVars, historyVars, cin, cout,
                    harnessVars >>

CodecDecode ==
    /\ cphase = "encoded"
    /\ cout' = decode(cbytes)
    /\ cphase' = "decoded"
    /\ UNCHANGED << probeVars, ringVars, collectorVars, historyVars, cin, cbytes,
                    harnessVars >>

NextCodec == CodecEncode \/ CodecDecode

SpecCodec == InitCodec /\ [][NextCodec]_vars

(***************************************************************************)
(* Vocabulary of the properties.                                           *)
(***************************************************************************)
\* x > 1 for an unsigned 32-bit x.
U32GtOne(x) == x.hi > 0 \/ x.lo > 1

Range(f) == {f[k] : k \in DOMAIN f}

\* The positions of the records reserved and not yet consumed.
RingPositions ==
    {consumer_pos + k * RecordLen(sizeof_event) : k \in 0 .. Outstanding - 1}

\* The positions of the submitted records of the channel.
SubmittedPositions == {p \in RingPositions : ~data[MaskPos(p)].busy}

\* The Event a submitted record of the channel holds.
EventAt(p) ==
    Event(Load32(data[MaskPos(p)].payload, offsetof_pid),
          Load32(data[MaskPos(p)].payload, offsetof_reason))

\* Invocation i has returned.
Returned(i) == inv[i].path # "running"

\* The submitted records of the channel that invocation i reserved.
InChannel(i) == {p \in SubmittedPositions : owner[MaskPos(p)] = i}

\* The places of the Sink's stream that came from invocation i.
Deliveries(i) == {k \in 1 .. Len(deliveredIds) : deliveredIds[k] = i}

\* Every invocation is over and the Collector has emptied the channel.
Quiescent == (\A c \in CPUS : pc[c] = "idle") /\ consumer_pos = producer_pos

\* The reasons the Sink received, in order.
SinkReasons == [k \in 1 .. Len(sink) |-> sink[k].reason]

\* The reasons of the invocations, in the order of the invocations.
InvokedReasons == [i \in 1 .. Len(inv) |-> inv[i].reason]

IsPrefix(s, t) == Len(s) <= Len(t) /\ s = SubSeq(t, 1, Len(s))

\* The place of invocation i in the order of the submits (0: not submitted).
SubmitRank(i) ==
    IF i \in Range(submitted)
    THEN CHOOSE k \in 1 .. Len(submitted) : submitted[k] = i
    ELSE 0

(***************************************************************************)
(* C1.  An invocation whose reason is 0 or 1 reserves nothing and submits  *)
(* nothing; every submitted Event of the channel and every Event the       *)
(* Collector emitted has reason > 1.                                       *)
(***************************************************************************)
C1_FilteredReasonsEmitNothing ==
    /\ \A i \in 1 .. Len(inv) :
          ~U32GtOne(inv[i].reason) =>
              /\ inv[i].path = "filtered"
              /\ inv[i].attempts = 0
              /\ i \notin Range(reserved)
              /\ i \notin Range(submitted)
              /\ i \notin Range(deliveredIds)
    /\ \A p \in SubmittedPositions : U32GtOne(EventAt(p).reason)
    /\ \A k \in 1 .. Len(sink) : U32GtOne(sink[k].reason)

\* An invocation with reason 1 was filtered and the Event of an invocation
\* with another reason went through the channel to the Sink.
C1_Witness ==
    /\ \E i \in 1 .. Len(inv) : inv[i].reason = U32(0, 1) /\ inv[i].path = "filtered"
    /\ \E i \in 1 .. Len(inv) : inv[i].path = "submitted"
    /\ Len(sink) = 1

(***************************************************************************)
(* C2.  An invocation with reason > 1 that found the channel not full when *)
(* it reserved has, once it returned, exactly one Event visible to the     *)
(* Collector (in the channel as a submitted record, or already emitted),   *)
(* and that Event carries the invocation's reason.                         *)
(***************************************************************************)
C2_ExactlyOneEventPerInvocation ==
    \A i \in 1 .. Len(inv) :
        (/\ U32GtOne(inv[i].reason)
         /\ Returned(i)
         /\ inv[i].occ < MaxRecords) =>
            /\ inv[i].path = "submitted"
            /\ Cardinality(InChannel(i)) + Cardinality(Deliveries(i)) = 1
            /\ \A p \in InChannel(i) : EventAt(p).reason = inv[i].reason
            /\ \A k \in Deliveries(i) : sink[k].reason = inv[i].reason

\* Two invocations with reason > 1 returned: the Event of one was emitted,
\* the Event of the other still waits in the channel.
C2_Witness ==
    \E i, j \in 1 .. Len(inv) :
        /\ i # j
        /\ U32GtOne(inv[i].reason) /\ Returned(i) /\ Cardinality(Deliveries(i)) = 1
        /\ U32GtOne(inv[j].reason) /\ Returned(j) /\ Cardinality(InChannel(j)) = 1

(***************************************************************************)
(* C3.  An invocation with reason > 1 that finds the channel filled to     *)
(* capacity gets no slot and its event is discarded: it returns without    *)
(* reserving, submitting or delivering anything.  No submitted event is    *)
(* overwritten or lost by it: every submitted event is either still in the *)
(* channel, unchanged, or was emitted to the Sink, unchanged, once.        *)
(***************************************************************************)
\* The Event invocation i is to produce.
EventOf(i) == Event(inv[i].pid_tgid.hi, inv[i].reason)

C3_SaturationDropsOnlyTheNewEvent ==
    /\ \A i \in 1 .. Len(inv) :
          (inv[i].attempts >= 1 /\ inv[i].occ >= MaxRecords) =>
              /\ inv[i].path = "nospace"
              /\ i \notin Range(reserved)
              /\ i \notin Range(submitted)
              /\ i \notin Range(deliveredIds)
    /\ \A k \in 1 .. Len(submitted) :
          LET i == submitted[k]
          IN  /\ Cardinality(InChannel(i)) + Cardinality(Deliveries(i)) = 1
              /\ \A p \in InChannel(i) : EventAt(p) = EventOf(i)
              /\ \A d \in Deliveries(i) : sink[d] = EventOf(i)

\* The channel held MaxRecords submitted events, one more invocation with
\* reason > 1 failed to reserve, and afterwards the Collector emitted all of
\* the MaxRecords events.
C3_Witness ==
    \E i \in 1 .. Len(inv) :
        /\ U32GtOne(inv[i].reason)
        /\ inv[i].path = "nospace"
        /\ inv[i].occ = MaxRecords
        /\ Len(submitted) = MaxRecords
        /\ \A k \in 1 .. MaxRecords : submitted[k] < i
        /\ deliveredIds = submitted
        /\ consumer_pos = producer_pos

(***************************************************************************)
(* C4.  With a single producer and no failed reservation, the reasons the  *)
(* Collector receives are the invoked reasons that are > 1, in the order   *)
(* of the invocations: always a prefix of them, and all of them once every *)
(* invocation has returned and the channel is drained.                     *)
(***************************************************************************)
C4_SingleProducerSubsequenceInOrder ==
    (\A i \in 1 .. Len(inv) : inv[i].path # "nospace") =>
        /\ IsPrefix(SinkReasons, SelectSeq(InvokedReasons, U32GtOne))
        /\ Quiescent => SinkReasons = SelectSeq(InvokedReasons, U32GtOne)

\* The end-to-end example: reasons [0, 2, 5, 1, 9] yield exactly [2, 5, 9].
C4_Witness ==
    /\ InvokedReasons = << U32(0, 0), U32(0, 2), U32(0, 5), U32(0, 1), U32(0, 9) >>
    /\ \A i \in 1 .. Len(inv) : inv[i].path # "nospace"
    /\ Quiescent
    /\ SinkReasons = << U32(0, 2), U32(0, 5), U32(0, 9) >>

(***************************************************************************)
(* C5 as stated.  Events reach the Sink in the order of their submits: an  *)
(* event is delivered only after every event submitted before it, also     *)
(* when its own reservation came first.                                    *)
(***************************************************************************)
C5_DeliveredInSubmitOrder ==
    \A k \in 1 .. Len(deliveredIds) :
        \A j \in 1 .. Len(submitted) :
            j < SubmitRank(deliveredIds[k]) =>
                \E l \in 1 .. k - 1 : deliveredIds[l] = submitted[j]

(***************************************************************************)
(* C5 as amended.  Events reach the Sink in the order of their             *)
(* reservations across all producers: at every moment the delivered events *)
(* are the first ones reserved, in the order reserved, whatever the order  *)
(* of the submits.                                                         *)
(***************************************************************************)
C5_DeliveredInReservationOrder == IsPrefix(deliveredIds, reserved)

\* Two invocations on two CPUs: A reserved first, B submitted first, and the
\* Sink received A before B.
C5_Witness ==
    \E a, b \in 1 .. Len(inv) :
        /\ a # b
        /\ reserved = << a, b >>
        /\ submitted = << b, a >>
        /\ deliveredIds = << a, b >>

(***************************************************************************)
(* C6.  The Collector never observes a partially written record: whatever  *)
(* it dequeued had been submitted by then, and the Event it emitted holds  *)
(* the pid and the reason its invocation wrote, never the bytes the slot   *)
(* held before.                                                            *)
(***************************************************************************)
C6_NoPartialRecordObserved ==
    \A k \in 1 .. Len(deliveredIds) :
        /\ deliveredIds[k] \in Range(submitted)
        /\ sink[k] = EventOf(deliveredIds[k])

\* The Collector stands at a reserved record whose pid is written and whose
\* reason is not, while the record behind it is already submitted.
C6_Witness ==
    /\ \E c \in CPUS :
          /\ pc[c] = "write_reason"
          /\ e[c] = << MaskPos(consumer_pos) >>
    /\ \E p \in SubmittedPositions : p > consumer_pos
    /\ sink = << >>

(***************************************************************************)
(* C7.  Whatever path an invocation takes (reason filtered, reservation    *)
(* failed, event submitted), trace_tcp_drop returns 0.                     *)
(***************************************************************************)
C7_AlwaysReturnsZero ==
    \A i \in 1 .. Len(inv) :
        /\ inv[i].path \in {"running", "filtered", "nospace", "submitted"}
        /\ Returned(i) <=> Len(inv[i].ret) = 1
        /\ Returned(i) => inv[i].ret[1] = 0

\* The three paths were all taken.
C7_Witness ==
    \E i, j, k \in 1 .. Len(inv) :
        /\ inv[i].path = "filtered"
        /\ inv[j].path = "nospace"
        /\ inv[k].path = "submitted"

(***************************************************************************)
(* C8.  Every invocation ends without waiting for the Collector or for the *)
(* other producers, also when the Collector never runs and the channel     *)
(* stays full: it attempts at most one reservation; while it runs its next *)
(* statement can always be executed, whatever the other CPUs do; and each  *)
(* statement it executes brings it closer to its return, which is at most  *)
(* StepsLeft("l25") statements away.                                       *)
(***************************************************************************)
\* The statements an invocation standing at `label` has yet to execute, at
\* most.
StepsLeft(label) ==
    CASE label = "idle" -> 0
      [] label = "l30" -> 1
      [] label = "l25" -> Len(body) + 2
      [] OTHER -> Len(body) - IndexOf(label) + 2

C8_ProbeNeverWaits ==
    /\ [](\A i \in 1 .. Len(inv) : inv[i].attempts <= 1)
    /\ [](\A c \in CPUS : pc[c] # "idle" => ENABLED trace_tcp_drop(c))
    /\ [][\A c \in CPUS :
            trace_tcp_drop(c) => StepsLeft(pc'[c]) < StepsLeft(pc[c])]_vars

\* The Collector never ran, the channel is full, and an invocation that
\* found it full has returned after its one attempt.
C8_Witness ==
    /\ consumer_pos = 0
    /\ Cardinality(RingPositions) = MaxRecords
    /\ \E i \in 1 .. Len(inv) :
          /\ inv[i].path = "nospace"
          /\ inv[i].attempts = 1
          /\ inv[i].occ = MaxRecords
    /\ \A c \in CPUS : pc[c] = "idle"

(***************************************************************************)
(* C9.  Every submitted Event holds, as pid, the high 32 bits of the       *)
(* pid/tgid value of the task that ran its invocation and, as reason, the  *)
(* reason of that invocation's context.                                    *)
(***************************************************************************)
C9_PidIsHighHalfReasonIsContext ==
    \A p \in SubmittedPositions :
        LET i == owner[MaskPos(p)]
        IN  /\ EventAt(p).pid = inv[i].pid_tgid.hi
            /\ EventAt(p).reason = inv[i].reason

\* Submitted Events of both tasks are in the channel: pid 7 (of 7 << 32 | 9)
\* and pid 0xFFFFFFFF (of 0xFFFFFFFF << 32 | 3).
C9_Witness ==
    /\ \E p \in SubmittedPositions : EventAt(p).pid = U32(0, 7)
    /\ \E p \in SubmittedPositions : EventAt(p).pid = U32(65535, 65535)

(***************************************************************************)
(* C10.  Codec round trip: encode makes exactly 8 bytes of an Event, the   *)
(* four of pid then the four of reason, and decode makes the Event of      *)
(* them again.                                                             *)
(***************************************************************************)
C10_CodecRoundTrip ==
    /\ cphase \in {"encoded", "decoded"} =>
          /\ Len(cbytes) = 8
          /\ \A k \in 1 .. 8 : cbytes[k] \in 0 .. 255
          /\ SubSeq(cbytes, 1, 4) = BytesOfU32(cin.pid)
          /\ SubSeq(cbytes, 5, 8) = BytesOfU32(cin.reason)
    /\ cphase = "decoded" => cout.ok /\ cout.event = cin

\* The round trip of the Event with pid 0x01020304 and reason 0xFFFFFFFF.
C10_Witness ==
    /\ cphase = "decoded"
    /\ cin = Event(U32(258, 772), U32(65535, 65535))
    /\ cbytes = << 4, 3, 2, 1, 255, 255, 255, 255 >>
    /\ cout.event = cin

(***************************************************************************)
(* C11.  decode rejects every raw record whose length is not 8 bytes as    *)
(* MalformedRecord.  The Collector never emits such a record to the Sink   *)
(* and goes on after it: it has dequeued the records in the order they     *)
(* were reserved, it stands behind the last one it dequeued, the Sink      *)
(* holds exactly the 8-byte ones among them, decoded, in order, and        *)
(* whenever the next record is submitted the Collector can dequeue it.     *)
(***************************************************************************)
\* Lengths of raw records decode is tried on.
MaxRawLen == 20

\* The length of the record known by id: a record of the probe (id > 0) or
\* the raw record -id.
LenOf(id) == IF id > 0 THEN sizeof_event ELSE raw[0 - id].len

WellSized(id) == LenOf(id) = 8

\* The records the Collector has dequeued, emitted or skipped, in order.
Dequeued == SubSeq(reserved, 1, Len(deliveredIds) + malformed)

RECURSIVE BytesTaken(_)
BytesTaken(ids) ==
    IF ids = << >> THEN 0 ELSE RecordLen(LenOf(Head(ids))) + BytesTaken(Tail(ids))

C11_MalformedRecordSkipped ==
    /\ \A n \in 0 .. MaxRawLen :
          LET d == decode(ZeroBytes(n))
          IN  IF n = 8 THEN d.ok ELSE ~d.ok /\ d.error = "MalformedRecord"
    /\ Len(deliveredIds) + malformed <= Len(reserved)
    /\ consumer_pos = BytesTaken(Dequeued)
    /\ deliveredIds = SelectSeq(Dequeued, WellSized)
    /\ \A k \in 1 .. Len(deliveredIds) :
          LET id == deliveredIds[k]
          IN  sink[k] = IF id > 0 THEN EventOf(id)
                        ELSE Event(Load32(raw[0 - id].payload, offsetof_pid),
                                   Load32(raw[0 - id].payload, offsetof_reason))
    /\ \A j \in 1 .. Len(raw) :
          raw[j].len # 8 => RawId(j) \notin Range(deliveredIds)
    /\ (consumer_pos < producer_pos /\ ~data[MaskPos(consumer_pos)].busy) =>
          ENABLED CollectorStep

\* A record of 7 bytes and one of 20 bytes were skipped; the raw record of 8
\* bytes and the record of the probe reserved after them were emitted.
C11_Witness ==
    /\ reserved = << RawId(1), RawId(2), RawId(3), 1 >>
    /\ raw[1].len = 7 /\ raw[2].len = 20 /\ raw[3].len = 8
    /\ malformed = 2
    /\ sink = << Event(U32(0, 9), U32(0, 2)), Event(U32(65535, 65535), U32(0, 2)) >>

(***************************************************************************)
(* C12.  Once cancellation is signaled, run returns within one poll        *)
(* timeout: no more than PollTimeout ticks pass between the signal and the *)
(* return, and until it has returned the loop always has a step to take,   *)
(* so that time cannot stand still instead.  After run has returned it     *)
(* stays returned, emits nothing to the Sink and leaves the read cursor    *)
(* where it is, whatever the channel still holds.                          *)
(***************************************************************************)
C12_CancelledRunReturnsInTime ==
    /\ [](since_cancel <= PollTimeout)
    /\ []((cancel_token /\ run_state # "returned") => ENABLED run)
    /\ [][run_state = "returned" =>
            /\ run_state' = "returned"
            /\ sink' = sink
            /\ malformed' = malformed
            /\ consumer_pos' = consumer_pos]_vars

\* Cancelled at the start of a poll, mid-stream: one Event was emitted, run
\* returned a full poll timeout after the signal, and a submitted event has
\* stayed in the channel.
C12_Witness ==
    /\ run_state = "returned"
    /\ since_cancel = PollTimeout
    /\ Len(sink) = 1
    /\ SubmittedPositions # {}
    /\ \A c \in CPUS : pc[c] = "idle"

(***************************************************************************)
(* C13.  The Collector changes no channel state but its own read cursor,   *)
(* which only advances: a step that moves the read cursor leaves the       *)
(* producer position, every record of the data area and the state of every *)
(* probe invocation as they were.  A step of the probe (its entry or one   *)
(* of its statements) never changes the read cursor.                       *)
(***************************************************************************)
C13_CollectorOnlyAdvancesItsCursor ==
    [][/\ consumer_pos' >= consumer_pos
       /\ (consumer_pos' # consumer_pos \/ CollectorStep) =>
              /\ producer_pos' = producer_pos
              /\ data' = data
              /\ probeVars' = probeVars
       /\ (\E c \in CPUS : Invoke(c, Inputs, MaxInvocations) \/ trace_tcp_drop(c)) =>
              consumer_pos' = consumer_pos
       /\ (producer_pos' # producer_pos \/ data' # data) =>
              consumer_pos' = consumer_pos]_vars

\* The Collector has dequeued the first record while the invocation that
\* reserved the second one is still writing it.
C13_Witness ==
    /\ consumer_pos = RecordLen(sizeof_event)
    /\ producer_pos = 2 * RecordLen(sizeof_event)
    /\ Len(sink) = 1
    /\ \E c \in CPUS : pc[c] = "write_reason" /\ e[c] = << MaskPos(consumer_pos) >>

(***************************************************************************)
(* C14.  With invocations running concurrently on several CPUs, every      *)
(* successful reservation yields a slot of its own: the slots held by two  *)
(* running invocations are different, the records reserved and not yet     *)
(* consumed occupy pairwise disjoint bytes of the data area, and a slot    *)
(* being written belongs to the invocation writing it.  So every Event     *)
(* delivered is the (pid, reason) pair of one single invocation, never the *)
(* pid of one with the reason of another.                                  *)
(***************************************************************************)
\* The bytes of the data area that the record at position p occupies.
SlotBytes(p) ==
    {MaskPos(b) : b \in p .. p + RecordLen(data[MaskPos(p)].len) - 1}

\* The invocation on CPU c holds a reserved slot it has not yet submitted.
Holding(c) == pc[c] \in Range(body)

C14_ConcurrentSlotsDisjoint ==
    /\ \A c1, c2 \in CPUS :
          (c1 # c2 /\ Holding(c1) /\ Holding(c2)) => e[c1] # e[c2]
    /\ \A c \in CPUS :
          Holding(c) =>
              /\ e[c] # NULL
              /\ owner[e[c][1]] = cur[c]
              /\ data[e[c][1]].busy
              /\ \E p \in RingPositions : MaskPos(p) = e[c][1]
    /\ \A p, q \in RingPositions :
          p # q => SlotBytes(p) \cap SlotBytes(q) = {}
    /\ \A k \in 1 .. Len(sink) :
          \E i \in 1 .. Len(inv) :
              /\ sink[k].pid = inv[i].pid_tgid.hi
              /\ sink[k].reason = inv[i].reason

\* Two invocations of different tasks and reasons held their slots at the
\* same time (the second reserved after the first and submitted before it)
\* and each one's own pair was delivered.
C14_Witness ==
    \E a, b \in 1 .. Len(inv) :
        /\ inv[a].reason = U32(0, 2) /\ inv[b].reason = U32(1, 0)
        /\ reserved = << a, b >>
        /\ submitted = << b, a >>
        /\ sink = << Event(U32(0, 7), U32(0, 2)), Event(U32(65535, 65535), U32(1, 0)) >>

(***************************************************************************)
(* C15.  A successful reservation is always followed by a submit in the    *)
(* same invocation: an invocation that reserved and has returned has       *)
(* submitted, every record of the channel that is still unsubmitted is     *)
(* held by an invocation that is still running between its reservation and *)
(* its submit, and once all invocations have returned the channel holds no *)
(* unsubmitted reservation.                                                *)
(***************************************************************************)
\* The positions of the records reserved and not yet submitted.
UnsubmittedPositions == RingPositions \ SubmittedPositions

C15_ReservationAlwaysSubmitted ==
    /\ \A i \in Range(reserved) :
          Returned(i) => i \in Range(submitted) /\ inv[i].path = "submitted"
    /\ \A i \in Range(submitted) : i \in Range(reserved)
    /\ \A p \in UnsubmittedPositions :
          \E c \in CPUS :
              /\ Holding(c)
              /\ e[c] = << MaskPos(p) >>
              /\ cur[c] = owner[MaskPos(p)]
    /\ (\A c \in CPUS : pc[c] = "idle") => UnsubmittedPositions = {}

\* Two invocations reserved, one on each CPU at the same time, and both
\* have returned: their two records wait in the channel, submitted.
C15_Witness ==
    /\ \A c \in CPUS : pc[c] = "idle"
    /\ Len(reserved) = 2
    /\ submitted = << reserved[2], reserved[1] >>
    /\ consumer_pos = 0
    /\ Cardinality(SubmittedPositions) = 2

(***************************************************************************)
(* C16.  Events are neither duplicated nor fabricated.  An invocation      *)
(* attempts one reservation at most and contributes one event at most: it  *)
(* occurs at most once among the reservations, the submits and the         *)
(* deliveries, also when the channel is full.  Only invocations with       *)
(* reason > 1 submit, and only submitted events are delivered.  Whenever   *)
(* no invocation is running, the invocations with reason > 1 are as many   *)
(* as the events submitted plus the invocations whose reservation failed.  *)
(***************************************************************************)
\* How often x occurs in the sequence s.
Occurrences(s, x) == Cardinality({k \in 1 .. Len(s) : s[k] = x})

\* The invocations with reason > 1, and those whose reservation failed.
Drops == {i \in 1 .. Len(inv) : U32GtOne(inv[i].reason)}
Failed == {i \in 1 .. Len(inv) : inv[i].path = "nospace"}

C16_NoDuplicationNoFabrication ==
    /\ \A i \in 1 .. Len(inv) :
          /\ inv[i].attempts <= 1
          /\ Occurrences(reserved, i) <= 1
          /\ Occurrences(submitted, i) <= 1
          /\ Occurrences(deliveredIds, i) <= 1
    /\ Range(submitted) \subseteq Drops
    /\ Range(deliveredIds) \subseteq Range(submitted)
    /\ Failed \subseteq Drops
    /\ Failed \cap Range(submitted) = {}
    /\ Len(sink) = Len(deliveredIds)
    /\ (\A c \in CPUS : pc[c] = "idle") =>
          Cardinality(Drops) = Len(submitted) + Cardinality(Failed)

\* No invocation is running; of five invocations one was filtered, one found
\* the channel full, three submitted, and two of the three were delivered.
C16_Witness ==
    /\ \A c \in CPUS : pc[c] = "idle"
    /\ Len(inv) = 5
    /\ Cardinality(Drops) = 4
    /\ Cardinality(Failed) = 1
    /\ Len(submitted) = 3
    /\ Len(sink) = 2

(***************************************************************************)
(* C17.  Every record the probe places in the channel has a payload of     *)
(* exactly sizeof(struct event) = 8 bytes: the records reserved and not    *)
(* yet consumed all have length 8 and fill the ring 16 bytes apiece, so    *)
(* the Collector's decode accepts each of them; it has skipped no record   *)
(* as malformed and has emitted one Event for each record it consumed.     *)
(***************************************************************************)
C17_ProbeRecordsAreEightBytes ==
    /\ sizeof_event = 8
    /\ producer_pos % RecordLen(8) = 0
    /\ consumer_pos % RecordLen(8) = 0
    /\ \A p \in RingPositions :
          LET rec == data[MaskPos(p)]
          IN  /\ rec.len = 8
              /\ decode(SubSeq(rec.payload, 1, rec.len)).ok
    /\ malformed = 0
    /\ consumer_pos = Len(sink) * RecordLen(8)

\* The single producer has gone round the ring: four records of 8 bytes were
\* emitted, the fifth, in the slot of the first, is reserved.
C17_Witness ==
    /\ Len(sink) = MaxRecords + 1
    /\ malformed = 0
    /\ producer_pos = consumer_pos + RecordLen(8)
    /\ MaskPos(consumer_pos) = 0
    /\ data[0].busy /\ data[0].len = 8

(***************************************************************************)
(* C18.  Loss under saturation is not permanent.  With a single producer,  *)
(* an invocation with reason > 1 that follows one whose reservation failed *)
(* and that finds fewer records in the channel than that one did (the      *)
(* Collector has consumed at least one record in between) gets its slot;   *)
(* once it has returned its event is in the channel or delivered, and once *)
(* the channel is drained it has been delivered, unchanged.                *)
(***************************************************************************)
C18_LossIsNotPermanent ==
    \A i, j \in 1 .. Len(inv) :
        (/\ i < j
         /\ inv[i].path = "nospace"
         /\ inv[j].attempts = 1
         /\ inv[j].occ < inv[i].occ) =>
            /\ inv[j].path # "nospace"
            /\ j \in Range(reserved)
            /\ Returned(j) =>
                  Cardinality(InChannel(j)) + Cardinality(Deliveries(j)) = 1
            /\ Quiescent =>
                  \E k \in Deliveries(j) : sink[k] = EventOf(j)

\* Three events filled the channel, the fourth invocation found it full, the
\* Collector consumed, and the fifth invocation's event went through: the
\* Sink holds four Events, the last one the fifth invocation's.
C18_Witness ==
    /\ Len(inv) = 5
    /\ inv[4].path = "nospace" /\ inv[4].occ = MaxRecords
    /\ inv[5].occ < MaxRecords
    /\ Quiescent
    /\ deliveredIds = << 1, 2, 3, 5 >>
    /\ sink[4] = EventOf(5)

(***************************************************************************)
(* C19.  With the Collector's run loop fairly scheduled, every running     *)
(* invocation completing its submit, and no cancellation, every event      *)
(* submitted to the channel is eventually emitted to the Sink: again and   *)
(* again all that was submitted has been delivered, and what is delivered  *)
(* stays delivered.                                                        *)
(***************************************************************************)
C19_SubmittedEventuallyDelivered ==
    /\ \A i \in 1 .. MaxInvocationsLive :
          (i \in Range(submitted)) ~> (i \in Range(deliveredIds))
    /\ [][IsPrefix(deliveredIds, deliveredIds') /\ IsPrefix(sink, sink')]_vars

\* An event that was submitted while the record reserved before it was not
\* yet submitted has been delivered, with everything else submitted.
C19_Witness ==
    /\ Len(reserved) = MaxInvocationsLive
    /\ Len(submitted) = MaxInvocationsLive
    /\ submitted[1] = reserved[2]
    /\ deliveredIds = reserved
    /\ Quiescent

====
